---- MODULE Spec2Model ----
(***************************************************************************)
(* Model of deadcode::GlitchEffect (src/src/graphics/GlitchEffect.cpp):    *)
(* the idle/active timing state machine, the intensity envelope, the       *)
(* hash noise generator, the stateful random stream and the per-character  *)
(* query getCharacterState.                                                *)
(*                                                                         *)
(* Number representation.  A float32 is a fixed-point integer counting     *)
(* thousandths (0.2f is 200, 1.0f is 1000); products and quotients round   *)
(* down.  Times are seconds in the same unit (2.0 s is 2000).  A uint32 of *)
(* the hash is a pair <<hi, lo>> of 16-bit halves, so that the 32-bit      *)
(* wrap-around of the source is computed exactly.                          *)
(***************************************************************************)
EXTENDS Integers, Sequences, FiniteSets, TLC

VARIABLES
    eng,   \* the GlitchEffect instance under study
    twin,  \* a second instance, constructed like eng (driven in SpecPair only)
    call,  \* the last call made on eng: its name and arguments
    ret,   \* what that call returned: a CharacterGlitchState, or Void
    app,   \* the Application that owns the window, the menu and the text box
    menu   \* a ConfigMenu, the settings screen

vars == <<eng, twin, call, ret, app, menu>>

(***************************************************************************)
(* Bounds of the model.                                                    *)
(***************************************************************************)
\* update(dt) is called with dt in {0, 0.1, ..., MaxDt * 0.1} seconds
MaxDt == 1
\* update is not called once elapsedTime would pass MaxElapsed * 0.1 seconds
MaxElapsed == 3
\* the same limit where the host only drives the timing, or only
\* initialises, updates and queries
MaxRunTime == 16
\* getCharacterState is called with charIndex in 0..MaxIndex, the text being
\* MaxIndex + 1 characters long
MaxIndex == 0
\* std::random_device yields a value in 0..MaxSeed
MaxSeed == 0

(***************************************************************************)
(* A value computed once and then named: Only({ e(x) : x \in {v} }) is     *)
(* e(v), with v evaluated a single time.                                   *)
(***************************************************************************)
Only(S) == CHOOSE v \in S : TRUE

(***************************************************************************)
(* float32 arithmetic (fixed point, thousandths).                          *)
(***************************************************************************)
\* the float32 value n/d
F(n, d) == (n * 1000) \div d

FMul(a, b) == (a * b) \div 1000

FDiv(a, b) == (a * 1000) \div b

FMin(a, b) == IF b < a THEN b ELSE a

FMax(a, b) == IF a < b THEN b ELSE a

FAbs(a) == IF a < 0 THEN 0 - a ELSE a

\* std::fmod for a non-negative dividend and a positive divisor
FMod(a, b) == a % b

\* static_cast<uint32>(float32): truncation of a non-negative value
ToUint32(a) == a \div 1000

\* std::sin, approximated by the piecewise-linear interpolant through its
\* zeros and extrema (period 6.283, quarter period 1.571)
Sin(x) ==
    LET r == x % 6283
    IN  IF r <= 1571 THEN (r * 1000) \div 1571
        ELSE IF r <= 4712 THEN ((3142 - r) * 1000) \div 1571
        ELSE ((r - 6283) * 1000) \div 1571

\* std::cos
Cos(x) == Sin(x + 1571)

\* glm::vec2 and glm::vec3 are tuples of float32
Vec2Add(a, b) == <<a[1] + b[1], a[2] + b[2]>>

Vec2Scale(a, s) == <<FMul(a[1], s), FMul(a[2], s)>>

Vec3Add(a, b) == <<a[1] + b[1], a[2] + b[2], a[3] + b[3]>>

Vec3Scale(a, s) == <<FMul(a[1], s), FMul(a[2], s), FMul(a[3], s)>>

(***************************************************************************)
(* uint32 arithmetic with wrap-around, on <<hi, lo>> 16-bit halves.        *)
(***************************************************************************)
U32(n) == <<(n \div 65536) % 65536, n % 65536>>

\* (a * b) mod 2^16 for 16-bit a and b
MulMod16(a, b) == (((a * (b \div 256)) % 256) * 256 + a * (b % 256)) % 65536

\* floor(a * b / 2^16) for 16-bit a and b
MulHigh16(a, b) ==
    LET A == a * (b \div 256)
        B == a * (b % 256)
    IN  (A \div 256) + (((A % 256) * 256 + B) \div 65536)

Add32(x, y) ==
    LET lo == x[2] + y[2]
    IN  <<(x[1] + y[1] + (lo \div 65536)) % 65536, lo % 65536>>

Mul32(x, y) ==
    <<(MulHigh16(x[2], y[2]) + MulMod16(x[1], y[2]) + MulMod16(x[2], y[1])) % 65536,
      MulMod16(x[2], y[2])>>

RECURSIVE XorBits(_, _, _)
XorBits(a, b, bits) ==
    IF bits = 0 THEN 0
    ELSE ((a + b) % 2) + 2 * XorBits(a \div 2, b \div 2, bits - 1)

\* a ^ b for 16-bit a and b
Xor16(a, b) == XorBits(a, b, 16)

Xor32(x, y) == <<Xor16(x[1], y[1]), Xor16(x[2], y[2])>>

\* n >> 13
Shr13(x) == <<x[1] \div 8192, (x[1] % 8192) * 8 + (x[2] \div 8192)>>

\* n >> 16
Shr16(x) == <<0, x[1]>>

(***************************************************************************)
(* The stateful random stream: m_randomEngine and m_distribution.          *)
(* std::mt19937 is modelled by a full-period generator on 4 states; a      *)
(* draw advances the engine and returns its new state scaled into [0, 1).  *)
(***************************************************************************)
\* the engine's state after one draw
mt19937(engine) == (5 * engine + 3) % 4

\* the value m_distribution(m_randomEngine) returns, drawn from `engine`
m_distribution(engine) == F(mt19937(engine), 4)

\* the state of a default-constructed std::mt19937 (default_seed 5489)
DefaultEngine == 5489 % 4

\* m_randomEngine.seed(value)
SeedEngine(value) == value % 4

\* m_distribution(m_randomEngine) * 10000, converted to uint32
RollNoiseSeed(engine) == ToUint32(m_distribution(engine) * 10000)

(***************************************************************************)
(* GlitchEffect::generateNoise                                             *)
(***************************************************************************)
\* the hash without the mask to 24 bits
generateNoiseBits32_NoMask(index, seed) ==
    Only({ Only({ Only({ Only({ <<m[1] * 16 + (m[2] \div 4096), m[2] % 4096>>
        : m \in {Xor32(n1, Shr16(n1))} })
        : n1 \in {Mul32(mixed, U32(1274126177))} })
        : mixed \in {Xor32(n0, Shr13(n0))} })
        : n0 \in {Add32(Mul32(index, U32(374761393)), Mul32(seed, U32(668265263)))} })

\* the 24-bit integer (n ^ (n >> 16)) & 0xFFFFFF, as <<top 12 bits, low 12 bits>>,
\* of uint32 arguments given as <<hi, lo>>; every intermediate value of n is
\* computed once
generateNoiseBits32(index, seed) ==
    Only({ Only({ Only({ Only({ <<(m[1] % 256) * 16 + (m[2] \div 4096), m[2] % 4096>>
        : m \in {Xor32(n1, Shr16(n1))} })
        : n1 \in {Mul32(mixed, U32(1274126177))} })
        : mixed \in {Xor32(n0, Shr13(n0))} })
        : n0 \in {Add32(Mul32(index, U32(374761393)), Mul32(seed, U32(668265263)))} })

\* static_cast<float32>(bits) / 16777216.0f, of uint32 arguments given as <<hi, lo>>
generateNoise32(index, seed) ==
    Only({ (k[1] * 1000 + ((k[2] * 1000) \div 4096)) \div 4096
        : k \in {generateNoiseBits32(index, seed)} })

\* the same 24-bit integer, of arguments given as numbers
generateNoiseBits(charIndex, seed) == generateNoiseBits32(U32(charIndex), U32(seed))

\* generateNoise, mixing the position of the random stream into the seed
generateNoise_ReadsEngine(charIndex, seed) ==
    generateNoise32(U32(charIndex), U32(seed + eng.m_randomEngine))

\* GlitchEffect::generateNoise
generateNoise(charIndex, seed) == generateNoise32(U32(charIndex), U32(seed))

(***************************************************************************)
(* GlitchConfig                                                            *)
(***************************************************************************)
\* the member initialisers of struct GlitchConfig
DefaultConfig ==
    [enabled               |-> TRUE,
     frequency             |-> 3000,
     duration              |-> 100,
     idleTime              |-> 2000,
     characterDisplacement |-> TRUE,
     maxJitter             |-> 3000,
     verticalJitter        |-> 1000,
     rgbSeparation         |-> TRUE,
     rgbSeparationAmount   |-> 2000,
     glitchColor           |-> <<1000, 0, 0>>,
     scanlines             |-> FALSE,
     scanlineSpeed         |-> 50000,
     scanlineHeight        |-> 2000,
     intensity             |-> 800,
     randomCorruption      |-> TRUE,
     corruptionChance      |-> 100,
     glitchType            |-> "ALL",
     textSlicing           |-> TRUE,
     sliceHeight           |-> 150,
     maxSliceOffset        |-> 30000,
     textDuplication       |-> TRUE,
     duplicationChance     |-> 150,
     blockDisplacement     |-> TRUE,
     blockSize             |-> 200,
     maxBlockOffset        |-> 20000,
     chromaticAberration   |-> TRUE,
     chromaticIntensity    |-> 1500]

\* the configuration StartMenu::initialize builds for the title
StartMenuConfig ==
    [DefaultConfig EXCEPT
        !.enabled = TRUE, !.frequency = 500, !.duration = 250, !.idleTime = 2000,
        !.characterDisplacement = TRUE, !.maxJitter = 6000, !.verticalJitter = 3000,
        !.rgbSeparation = TRUE, !.rgbSeparationAmount = 3000,
        !.glitchColor = <<1000, 0, 500>>, !.intensity = 900,
        !.randomCorruption = TRUE, !.corruptionChance = 80,
        !.textSlicing = TRUE, !.sliceHeight = 200, !.maxSliceOffset = 40000,
        !.textDuplication = TRUE, !.duplicationChance = 200,
        !.blockDisplacement = TRUE, !.blockSize = 250, !.maxBlockOffset = 25000,
        !.chromaticAberration = TRUE, !.chromaticIntensity = 2000]

\* the title's configuration with a short idle time
TitleConfig == [StartMenuConfig EXCEPT !.idleTime = 300]

\* a configuration with a long glitch, whose ramp-up is sampled by 0.1 s
\* frames; scanlines and plain RGB separation in use, corruption and
\* duplication likely
SlowConfig ==
    [DefaultConfig EXCEPT
        !.duration = 600, !.idleTime = 200, !.intensity = 1000,
        !.scanlines = TRUE, !.chromaticAberration = FALSE,
        !.corruptionChance = 1000, !.duplicationChance = 500]

\* configurations with a non-positive duration
DegenerateConfigs ==
    {[SlowConfig EXCEPT !.duration = 0], [SlowConfig EXCEPT !.duration = 0 - 100]}

\* configurations with a glitch of one second, whose intensity passes through
\* every band between the thresholds of the effects in 0.1 s frames (0.2,
\* 0.125 with intensity 1; 0.18, 0.225, 0.112 with intensity 0.9); every
\* character is in the slice zone and is duplicated once those effects apply
ThresholdConfigs ==
    {[SlowConfig EXCEPT
        !.duration = 1000, !.idleTime = 100, !.intensity = intensity,
        !.chromaticAberration = chromatic, !.characterDisplacement = displaced,
        !.sliceHeight = 1000, !.duplicationChance = 1000, !.corruptionChance = 0]
     : intensity \in {900, 1000}, chromatic \in BOOLEAN, displaced \in BOOLEAN}

\* configurations whose glitch is no longer than a frame of 0.1 s
CoarseConfigs ==
    {[SlowConfig EXCEPT !.duration = 100, !.idleTime = 100],
     [SlowConfig EXCEPT !.duration = 50, !.idleTime = 200, !.chromaticAberration = TRUE]}

\* the configurations an engine is constructed with or given by setConfig
Configs == {TitleConfig, SlowConfig}

(***************************************************************************)
(* GlitchEffect: construction and the timing state machine.                *)
(***************************************************************************)
\* GlitchEffect::GlitchEffect(const GlitchConfig&)
GlitchEffect(config) ==
    [m_config           |-> config,
     m_initialized      |-> FALSE,
     m_isGlitching      |-> FALSE,
     m_glitchTimer      |-> 0,
     m_idleTimer        |-> 0,
     m_currentIntensity |-> 0,
     m_elapsedTime      |-> 0,
     m_randomEngine     |-> DefaultEngine,
     m_noiseSeed        |-> 0,
     m_screenWidth      |-> 1920,
     m_screenHeight     |-> 1080,
     m_resolutionScale  |-> 1000]

\* GlitchEffect::initialize; rd is the value std::random_device returns
initialize(g, rd) ==
    IF g.m_initialized THEN g
    ELSE [g EXCEPT
            !.m_randomEngine = mt19937(SeedEngine(rd)),
            !.m_noiseSeed    = RollNoiseSeed(SeedEngine(rd)),
            !.m_idleTimer    = g.m_config.idleTime,
            !.m_initialized  = TRUE]

\* triggerGlitch, starting the glitch at the full intensity
triggerGlitch_FullIntensity(g) ==
    [g EXCEPT
        !.m_isGlitching      = TRUE,
        !.m_glitchTimer      = 0,
        !.m_currentIntensity = g.m_config.intensity,
        !.m_noiseSeed        = RollNoiseSeed(g.m_randomEngine),
        !.m_randomEngine     = mt19937(g.m_randomEngine)]

\* triggerGlitch, leaving the glitch timer as it is
triggerGlitch_KeepsTimer(g) ==
    [g EXCEPT
        !.m_isGlitching      = TRUE,
        !.m_currentIntensity = 0,
        !.m_noiseSeed        = RollNoiseSeed(g.m_randomEngine),
        !.m_randomEngine     = mt19937(g.m_randomEngine)]

\* GlitchEffect::triggerGlitch
triggerGlitch(g) ==
    [g EXCEPT
        !.m_isGlitching      = TRUE,
        !.m_glitchTimer      = 0,
        !.m_currentIntensity = 0,
        !.m_noiseSeed        = RollNoiseSeed(g.m_randomEngine),
        !.m_randomEngine     = mt19937(g.m_randomEngine)]

\* reset, leaving the elapsed time as it is
reset_KeepsElapsed(g) ==
    [g EXCEPT
        !.m_isGlitching      = FALSE,
        !.m_glitchTimer      = 0,
        !.m_idleTimer        = g.m_config.idleTime,
        !.m_currentIntensity = 0,
        !.m_noiseSeed        = RollNoiseSeed(g.m_randomEngine),
        !.m_randomEngine     = mt19937(g.m_randomEngine)]

\* GlitchEffect::reset
reset(g) ==
    [g EXCEPT
        !.m_isGlitching      = FALSE,
        !.m_glitchTimer      = 0,
        !.m_idleTimer        = g.m_config.idleTime,
        !.m_currentIntensity = 0,
        !.m_elapsedTime      = 0,
        !.m_noiseSeed        = RollNoiseSeed(g.m_randomEngine),
        !.m_randomEngine     = mt19937(g.m_randomEngine)]

\* envelope, with a ramp that divides by 0.2 and so reaches the full
\* intensity at the 20% mark
envelope_FullRamp(progress, intensity) ==
    IF progress < 200
    THEN FMul(FDiv(progress, 200), intensity)
    ELSE FMul(intensity, 1000 - FDiv(progress - 200, 800))

\* envelope, with a fade that starts from half the intensity
envelope_HalfFade(progress, intensity) ==
    IF progress < 200
    THEN FMul(FDiv(progress, 500), intensity)
    ELSE FMul(FMul(intensity, 500), 1000 - FDiv(progress - 200, 800))

\* the intensity envelope of update: ramp up, then fade out
envelope(progress, intensity) ==
    IF progress < 200
    THEN FMul(FDiv(progress, 500), intensity)
    ELSE FMul(intensity, 1000 - FDiv(progress - 200, 800))

\* updateActive, ending the glitch without zeroing the intensity
updateActive_KeepsIntensity(g, deltaTime) ==
    LET timer    == g.m_glitchTimer + deltaTime
        progress == FDiv(timer, g.m_config.duration)
        ramped   == [g EXCEPT
                       !.m_glitchTimer      = timer,
                       !.m_currentIntensity = envelope(progress, g.m_config.intensity)]
    IN  IF timer >= g.m_config.duration
        THEN [ramped EXCEPT
                !.m_isGlitching  = FALSE,
                !.m_glitchTimer  = 0,
                !.m_idleTimer    = g.m_config.idleTime,
                !.m_noiseSeed    = RollNoiseSeed(g.m_randomEngine),
                !.m_randomEngine = mt19937(g.m_randomEngine)]
        ELSE ramped

\* updateActive, ending the glitch without re-arming the idle timer
updateActive_NoRearm(g, deltaTime) ==
    LET timer    == g.m_glitchTimer + deltaTime
        progress == FDiv(timer, g.m_config.duration)
    IN  IF timer >= g.m_config.duration
        THEN [g EXCEPT
                !.m_isGlitching      = FALSE,
                !.m_glitchTimer      = 0,
                !.m_currentIntensity = 0,
                !.m_noiseSeed        = RollNoiseSeed(g.m_randomEngine),
                !.m_randomEngine     = mt19937(g.m_randomEngine)]
        ELSE [g EXCEPT
                !.m_glitchTimer      = timer,
                !.m_currentIntensity = envelope(progress, g.m_config.intensity)]

\* updateActive, ending the glitch only once the timer has passed the duration
updateActive_LateEnd(g, deltaTime) ==
    LET timer    == g.m_glitchTimer + deltaTime
        progress == FDiv(timer, g.m_config.duration)
    IN  IF timer > g.m_config.duration
        THEN [g EXCEPT
                !.m_isGlitching      = FALSE,
                !.m_glitchTimer      = 0,
                !.m_currentIntensity = 0,
                !.m_idleTimer        = g.m_config.idleTime,
                !.m_noiseSeed        = RollNoiseSeed(g.m_randomEngine),
                !.m_randomEngine     = mt19937(g.m_randomEngine)]
        ELSE [g EXCEPT
                !.m_glitchTimer      = timer,
                !.m_currentIntensity = envelope(progress, g.m_config.intensity)]

\* the branch of update taken while a glitch is active
updateActive(g, deltaTime) ==
    LET timer    == g.m_glitchTimer + deltaTime
        progress == FDiv(timer, g.m_config.duration)
    IN  IF timer >= g.m_config.duration
        THEN [g EXCEPT
                !.m_isGlitching      = FALSE,
                !.m_glitchTimer      = 0,
                !.m_currentIntensity = 0,
                !.m_idleTimer        = g.m_config.idleTime,
                !.m_noiseSeed        = RollNoiseSeed(g.m_randomEngine),
                !.m_randomEngine     = mt19937(g.m_randomEngine)]
        ELSE [g EXCEPT
                !.m_glitchTimer      = timer,
                !.m_currentIntensity = envelope(progress, g.m_config.intensity)]

\* updateIdle, without the countdown of the idle timer
updateIdle_NoCountdown(g, deltaTime) ==
    IF g.m_idleTimer <= 0 THEN triggerGlitch(g) ELSE g

\* updateIdle, triggering only once the idle timer has passed zero
updateIdle_StrictExpiry(g, deltaTime) ==
    LET idle == [g EXCEPT !.m_idleTimer = @ - deltaTime]
    IN  IF idle.m_idleTimer < 0 THEN triggerGlitch(idle) ELSE idle

\* the branch of update taken while idle
updateIdle(g, deltaTime) ==
    LET idle == [g EXCEPT !.m_idleTimer = @ - deltaTime]
    IN  IF idle.m_idleTimer <= 0 THEN triggerGlitch(idle) ELSE idle

\* update, without the check of config.enabled
update_IgnoresEnabled(g, deltaTime) ==
    IF ~g.m_initialized THEN g
    ELSE LET timed == [g EXCEPT !.m_elapsedTime = @ + deltaTime]
         IN  IF timed.m_isGlitching
             THEN updateActive(timed, deltaTime)
             ELSE updateIdle(timed, deltaTime)

\* GlitchEffect::update
update(g, deltaTime) ==
    IF ~g.m_initialized \/ ~g.m_config.enabled THEN g
    ELSE LET timed == [g EXCEPT !.m_elapsedTime = @ + deltaTime]
         IN  IF timed.m_isGlitching
             THEN updateActive(timed, deltaTime)
             ELSE updateIdle(timed, deltaTime)

\* whether update(g, dt) reaches the statement
\* progress = m_glitchTimer / m_config.duration, whose result is overwritten
\* when the glitch ends in the same call
evaluatesEnvelope(g) == g.m_initialized /\ g.m_config.enabled /\ g.m_isGlitching

\* setEnabled, which also drops a running glitch when disabling
setEnabled_StopsGlitch(g, enabled) ==
    [g EXCEPT !.m_config.enabled = enabled,
              !.m_isGlitching    = @ /\ enabled]

\* GlitchEffect::setEnabled
setEnabled(g, enabled) == [g EXCEPT !.m_config.enabled = enabled]

\* GlitchEffect::setConfig
setConfig(g, config) == [g EXCEPT !.m_config = config]

\* GlitchEffect::isActive
isActive(g) == g.m_isGlitching

\* GlitchEffect::getCurrentIntensity
getCurrentIntensity(g) == g.m_currentIntensity

\* setScreenSize, without the clamp to [0.3, 3.0]
setScreenSize_NoClamp(g, width, height) ==
    [g EXCEPT
        !.m_screenWidth     = width,
        !.m_screenHeight    = height,
        !.m_resolutionScale = FMin(F(width, 1920), F(height, 1080))]

\* GlitchEffect::setScreenSize
setScreenSize(g, width, height) ==
    LET widthScale  == F(width, 1920)
        heightScale == F(height, 1080)
    IN  [g EXCEPT
            !.m_screenWidth     = width,
            !.m_screenHeight    = height,
            !.m_resolutionScale = FMax(300, FMin(FMin(widthScale, heightScale), 3000))]

(***************************************************************************)
(* GlitchEffect: the per-character query.                                  *)
(***************************************************************************)
\* the CharacterGlitchState getCharacterState starts from
NeutralState ==
    [offset          |-> <<0, 0>>,
     colorMod        |-> <<1000, 1000, 1000>>,
     alpha           |-> 1000,
     scale           |-> 1000,
     visible         |-> TRUE,
     scanlinePhase   |-> 0,
     duplicate       |-> FALSE,
     duplicateOffset |-> <<0, 0>>,
     sliceOffset     |-> 0,
     inSliceZone     |-> FALSE]

\* GlitchEffect::generateRandomOffset: two draws from the random stream
generateRandomOffset(g) ==
    LET first  == mt19937(g.m_randomEngine)
        x      == FMul(FMul(FMul(m_distribution(g.m_randomEngine) - 500, 2000),
                            g.m_config.maxJitter), g.m_resolutionScale)
        y      == FMul(FMul(FMul(m_distribution(first) - 500, 2000),
                            g.m_config.verticalJitter), g.m_resolutionScale)
    IN  [offset |-> <<x, y>>, randomEngine |-> mt19937(first)]

\* GlitchEffect::calculateWaveDisplacement
calculateWaveDisplacement(g, charIndex, characterCount) ==
    IF characterCount = 0 THEN <<0, 0>>
    ELSE LET normalizedPos == FDiv(charIndex * 1000, characterCount * 1000)
             wave1 == Sin(FMul(g.m_elapsedTime, 10000) + FMul(normalizedPos, 20000))
             wave2 == Sin(FMul(g.m_elapsedTime, 7300) + FMul(normalizedPos, 15000) + 1500)
             wave3 == Cos(FMul(g.m_elapsedTime, 13700) - FMul(normalizedPos, 10000))
         IN  <<FMul(FMul(FMul(wave1, 500) + FMul(wave2, 300), g.m_config.maxJitter),
                    g.m_resolutionScale),
               FMul(FMul(FMul(wave3, 200), g.m_config.verticalJitter),
                    g.m_resolutionScale)>>

\* GlitchEffect::calculateSliceDisplacement: <<offset, inSliceZone>>
calculateSliceDisplacement(g, charIndex, characterCount) ==
    IF characterCount = 0 THEN <<0, FALSE>>
    ELSE LET normalizedPos      == FDiv(charIndex * 1000, characterCount * 1000)
             sliceZoneCenter    == generateNoise(ToUint32(FMul(g.m_elapsedTime, 10000)),
                                                 g.m_noiseSeed)
             distanceFromCenter == FAbs(normalizedPos - sliceZoneCenter)
             sliceDirection     ==
                 IF generateNoise(ToUint32(sliceZoneCenter * 1000), g.m_noiseSeed) > 500
                 THEN 1000 ELSE 0 - 1000
             sliceIntensity     == 1000 - FDiv(distanceFromCenter, g.m_config.sliceHeight)
         IN  IF ~(distanceFromCenter < g.m_config.sliceHeight) THEN <<0, FALSE>>
             ELSE <<FMul(FMul(FMul(sliceDirection, g.m_config.maxSliceOffset),
                              sliceIntensity), g.m_resolutionScale), TRUE>>

\* GlitchEffect::calculateBlockDisplacement
calculateBlockDisplacement(g, charIndex, characterCount) ==
    IF characterCount = 0 THEN <<0, 0>>
    ELSE LET blockSize   == FMax(1, ToUint32(characterCount * g.m_config.blockSize))
             blockIndex  == charIndex \div blockSize
             blockNoiseX == generateNoise(blockIndex, g.m_noiseSeed + 500)
             blockNoiseY == generateNoise(blockIndex, g.m_noiseSeed + 600)
         IN  IF blockNoiseX < 600 THEN <<0, 0>>
             ELSE <<FMul(FMul(FMul(blockNoiseX - 500, 2000), g.m_config.maxBlockOffset),
                         g.m_resolutionScale),
                    FMul(FMul(FMul(FMul(blockNoiseY - 500, 2000), g.m_config.maxBlockOffset),
                              500), g.m_resolutionScale)>>

\* GlitchEffect::calculateDuplication: <<shouldDuplicate, offset>>
calculateDuplication(g, charIndex) ==
    IF generateNoise(charIndex, g.m_noiseSeed + 700) > g.m_config.duplicationChance
    THEN <<FALSE, <<0, 0>>>>
    ELSE <<TRUE, <<FMul(generateNoise(charIndex, g.m_noiseSeed + 800) - 500, 10000),
                   FMul(generateNoise(charIndex, g.m_noiseSeed + 900) - 500, 5000)>>>>

\* the colour of a character in one of the three channel buckets: the bucket's
\* channel is raised by `up`, the others lowered by `down` and `low`
channelColor(charIndex, up, down, low) ==
    LET channelPhase == F(charIndex % 3, 3)
    IN  IF channelPhase < 330 THEN <<1000 + up, 1000 - down, 1000 - low>>
        ELSE IF channelPhase < 660 THEN <<1000 - down, 1000 + up, 1000 - down>>
        ELSE <<1000 - low, 1000 - down, 1000 + up>>

\* getCharacterState, text slicing block
applySlicing(g, state, charIndex, characterCount) ==
    IF g.m_config.textSlicing /\ g.m_currentIntensity > 150
    THEN LET slice == calculateSliceDisplacement(g, charIndex, characterCount)
         IN  [state EXCEPT
                !.sliceOffset = FMul(slice[1], g.m_currentIntensity),
                !.inSliceZone = slice[2],
                !.offset = IF slice[2]
                           THEN <<@[1] + FMul(slice[1], g.m_currentIntensity), @[2]>>
                           ELSE @]
    ELSE state

\* getCharacterState, block displacement block
applyBlock(g, state, charIndex, characterCount) ==
    IF g.m_config.blockDisplacement /\ g.m_currentIntensity > 200
    THEN [state EXCEPT
            !.offset = Vec2Add(@, Vec2Scale(
                calculateBlockDisplacement(g, charIndex, characterCount),
                g.m_currentIntensity))]
    ELSE state

\* getCharacterState, character displacement block; `random` is the offset
\* generateRandomOffset returned
applyDisplacement(g, state, random, charIndex, characterCount) ==
    LET waveOffset == calculateWaveDisplacement(g, charIndex, characterCount)
        noise      == generateNoise(charIndex, g.m_noiseSeed)
    IN  [state EXCEPT
            !.offset = <<FMul(FMul(FMul(waveOffset[1], 700) + FMul(random[1], 300),
                                   g.m_currentIntensity), noise),
                         FMul(FMul(FMul(waveOffset[2], 700) + FMul(random[2], 300),
                                   g.m_currentIntensity), noise)>>]

\* getCharacterState, duplication block
applyDuplication(g, state, charIndex) ==
    IF g.m_config.textDuplication /\ g.m_currentIntensity > 300
    THEN LET dup == calculateDuplication(g, charIndex)
         IN  IF dup[1]
             THEN [state EXCEPT
                    !.duplicate = TRUE,
                    !.duplicateOffset = Vec2Scale(Vec2Scale(dup[2], g.m_currentIntensity),
                                                  g.m_resolutionScale)]
             ELSE state
    ELSE state

\* the colour block, applied from the threshold 0.2 on
applyColor_AtThreshold(g, state, charIndex) ==
    LET intensity == g.m_currentIntensity
        chromatic == g.m_config.chromaticIntensity
    IN  IF g.m_config.chromaticAberration /\ intensity >= 200
        THEN [state EXCEPT
                !.colorMod = Vec3Add(
                    channelColor(charIndex,
                                 FMul(FMul(intensity, chromatic), 800),
                                 FMul(FMul(intensity, chromatic), 500),
                                 FMul(FMul(intensity, chromatic), 700)),
                    Vec3Scale(Vec3Scale(Vec3Scale(g.m_config.glitchColor, intensity),
                                        chromatic), 400))]
        ELSE IF g.m_config.rgbSeparation /\ intensity >= 200
        THEN [state EXCEPT
                !.colorMod = Vec3Add(
                    channelColor(charIndex, FMul(intensity, 500), FMul(intensity, 300),
                                 FMul(intensity, 300)),
                    Vec3Scale(Vec3Scale(g.m_config.glitchColor, intensity), 300))]
        ELSE state

\* getCharacterState, chromatic aberration / RGB separation block
applyColor(g, state, charIndex) ==
    LET intensity == g.m_currentIntensity
        chromatic == g.m_config.chromaticIntensity
    IN  IF g.m_config.chromaticAberration /\ intensity > 200
        THEN [state EXCEPT
                !.colorMod = Vec3Add(
                    channelColor(charIndex,
                                 FMul(FMul(intensity, chromatic), 800),
                                 FMul(FMul(intensity, chromatic), 500),
                                 FMul(FMul(intensity, chromatic), 700)),
                    Vec3Scale(Vec3Scale(Vec3Scale(g.m_config.glitchColor, intensity),
                                        chromatic), 400))]
        ELSE IF g.m_config.rgbSeparation /\ intensity > 200
        THEN [state EXCEPT
                !.colorMod = Vec3Add(
                    channelColor(charIndex, FMul(intensity, 500), FMul(intensity, 300),
                                 FMul(intensity, 300)),
                    Vec3Scale(Vec3Scale(g.m_config.glitchColor, intensity), 300))]
        ELSE state

\* getCharacterState, random corruption block
applyCorruption(g, state, charIndex) ==
    IF g.m_config.randomCorruption
       /\ generateNoise(charIndex, g.m_noiseSeed + 1000)
            < FMul(g.m_config.corruptionChance, g.m_currentIntensity)
    THEN [state EXCEPT !.visible = FALSE]
    ELSE state

\* getCharacterState, scanline block
applyScanlines(g, state) ==
    IF g.m_config.scanlines
    THEN [state EXCEPT
            !.scanlinePhase = FMod(FMul(g.m_elapsedTime, g.m_config.scanlineSpeed),
                                   FMul(g.m_config.scanlineHeight, 10000))]
    ELSE state

\* the early return of getCharacterState, without the check of config.enabled
producesNoEffect_IgnoresEnabled(g) == ~g.m_initialized \/ ~g.m_isGlitching

\* the early return of getCharacterState: the engine produces no effect
producesNoEffect(g) == ~g.m_initialized \/ ~g.m_config.enabled \/ ~g.m_isGlitching

\* whether getCharacterState draws from the random stream
drawsRandomOffset(g) ==
    ~producesNoEffect(g) /\ g.m_config.characterDisplacement /\ g.m_currentIntensity > 100

\* GlitchEffect::getCharacterState: the state returned, and the random engine
\* the call leaves behind (m_randomEngine is mutable in the const method)
getCharacterState(g, charIndex, characterCount) ==
    IF producesNoEffect(g)
    THEN [state |-> NeutralState, randomEngine |-> g.m_randomEngine]
    ELSE LET random    == generateRandomOffset(g)
             sliced    == applySlicing(g, NeutralState, charIndex, characterCount)
             blocked   == applyBlock(g, sliced, charIndex, characterCount)
             displaced == IF drawsRandomOffset(g)
                          THEN applyDisplacement(g, blocked, random.offset,
                                                 charIndex, characterCount)
                          ELSE blocked
             doubled   == applyDuplication(g, displaced, charIndex)
             coloured  == applyColor(g, doubled, charIndex)
             corrupted == applyCorruption(g, coloured, charIndex)
         IN  [state        |-> applyScanlines(g, corrupted),
              randomEngine |-> IF drawsRandomOffset(g)
                               THEN random.randomEngine
                               ELSE g.m_randomEngine]

(***************************************************************************)
(* Application: the exit request, the confirmation text box and the main   *)
(* loop of run().  One key at most is pressed in a frame.                  *)
(***************************************************************************)
\* StartMenuOption, in the order of the enum
StartMenuOptions == <<"NEW_GAME", "CONTINUE", "SETTINGS", "CREDITS", "EXIT">>

\* the keys the menus react to, and no key
Keys == {"NONE", "UP", "DOWN", "LEFT", "RIGHT", "ENTER", "SPACE", "ESCAPE"}

\* Application::Application, with the members of Impl it will own; `at` is
\* the position of the thread in run()
Application ==
    [m_initialized   |-> FALSE,
     m_running       |-> FALSE,
     m_exitRequested |-> FALSE,
     m_gameState     |-> "MainMenu",
     shouldClose     |-> FALSE,
     at              |-> "outside",
     mainMenu        |-> [m_selectedOption |-> 1, m_continueEnabled |-> FALSE],
     textBox         |-> [m_visible        |-> FALSE,
                          m_selectedOption |-> FALSE,
                          m_callbacks      |-> <<"none", "none">>]]

\* Application::initialize: the subsystems are created; setupMainMenu
\* enables CONTINUE when there are save files
Application_initialize(a, hasSaves) ==
    [a EXCEPT !.m_initialized = TRUE,
              !.mainMenu.m_continueEnabled = hasSaves]

\* Application::requestExit: shows the confirmation box and installs its
\* callbacks, "hide" for the option false and "exit" for the option true
requestExit(a) ==
    [a EXCEPT !.textBox.m_visible   = TRUE,
              !.textBox.m_callbacks = <<"hide", "exit">>]

\* Application::isExitRequested
isExitRequested(a) == a.m_exitRequested

\* TextBox::executeSelection, running the callback of the other option
TextBox_executeSelection_Swapped(a) ==
    LET callback == a.textBox.m_callbacks[IF a.textBox.m_selectedOption THEN 1 ELSE 2]
    IN  IF callback = "hide" THEN [a EXCEPT !.textBox.m_visible = FALSE]
        ELSE IF callback = "exit" THEN [a EXCEPT !.m_exitRequested = TRUE]
        ELSE a

\* TextBox::executeSelection, with the callbacks requestExit installs
TextBox_executeSelection(a) ==
    LET callback == a.textBox.m_callbacks[IF a.textBox.m_selectedOption THEN 2 ELSE 1]
    IN  IF callback = "hide" THEN [a EXCEPT !.textBox.m_visible = FALSE]
        ELSE IF callback = "exit" THEN [a EXCEPT !.m_exitRequested = TRUE]
        ELSE a

\* TextBox::handleInput
TextBox_handleInput(a, key) ==
    IF ~a.textBox.m_visible THEN a
    ELSE IF key \in {"LEFT", "RIGHT"}
         THEN [a EXCEPT !.textBox.m_selectedOption = ~@]
    ELSE IF key \in {"ENTER", "SPACE"} THEN TextBox_executeSelection(a)
    ELSE IF key = "ESCAPE" THEN [a EXCEPT !.textBox.m_visible = FALSE]
    ELSE a

\* StartMenu::isOptionEnabled
isOptionEnabled(a, option) ==
    StartMenuOptions[option] = "CONTINUE" => a.mainMenu.m_continueEnabled

\* StartMenu::setContinueEnabled
setContinueEnabled(a, enabled) == [a EXCEPT !.mainMenu.m_continueEnabled = enabled]

\* moveSelectionUp / moveSelectionDown, without the skip of disabled options
moveSelection_NoSkip(a, option, step) ==
    ((option - 1 + step + Len(StartMenuOptions)) % Len(StartMenuOptions)) + 1

\* StartMenu::moveSelectionUp / moveSelectionDown: the next enabled option
\* in the direction `step`, wrapping around
RECURSIVE moveSelection(_, _, _)
moveSelection(a, option, step) ==
    LET current == ((option - 1 + step + Len(StartMenuOptions)) % Len(StartMenuOptions)) + 1
    IN  IF isOptionEnabled(a, current) THEN current
        ELSE moveSelection(a, current, step)

\* StartMenu::executeSelection, with the callbacks setupMainMenu installs
StartMenu_executeSelection(a) ==
    LET option == StartMenuOptions[a.mainMenu.m_selectedOption]
    IN  IF ~isOptionEnabled(a, a.mainMenu.m_selectedOption) THEN a
        ELSE IF option \in {"NEW_GAME", "CONTINUE"}
             THEN [a EXCEPT !.m_gameState = "Playing"]
        ELSE IF option = "SETTINGS" THEN [a EXCEPT !.m_gameState = "Configuration"]
        ELSE IF option = "EXIT" THEN requestExit(a)
        ELSE a

\* StartMenu::handleInput
StartMenu_handleInput(a, key) ==
    IF key = "UP"
    THEN [a EXCEPT !.mainMenu.m_selectedOption = moveSelection(a, @, 0 - 1)]
    ELSE IF key = "DOWN"
    THEN [a EXCEPT !.mainMenu.m_selectedOption = moveSelection(a, @, 1)]
    ELSE IF key \in {"ENTER", "SPACE"} THEN StartMenu_executeSelection(a)
    ELSE IF key = "ESCAPE" THEN [a EXCEPT !.mainMenu.m_selectedOption = 5]
    ELSE a

\* Application::handleKeyInput, called by pollEvents for the key pressed
handleKeyInput(a, key) ==
    IF key = "NONE" \/ a.m_gameState # "MainMenu" THEN a
    ELSE IF ~a.textBox.m_visible THEN StartMenu_handleInput(a, key)
    ELSE TextBox_handleInput(a, key)

\* Application::processInput
processInput(a, key) ==
    IF key # "ESCAPE" THEN a
    ELSE IF a.m_gameState = "Playing" THEN [a EXCEPT !.m_gameState = "MainMenu"]
    ELSE IF a.m_gameState = "MainMenu" THEN requestExit(a)
    ELSE a

\* the condition of the loop of Application::run
loops(a) == a.m_running /\ ~a.m_exitRequested /\ ~a.shouldClose

(***************************************************************************)
(* ConfigMenu: categories of settings, a selected setting, and the keys    *)
(* that move the selection and change the selected setting.                *)
(***************************************************************************)
\* ConfigCategory, in the order of the enum
ConfigCategories == <<"DISPLAY", "AUDIO", "GAMEPLAY", "CONTROLS">>

\* the keys ConfigMenu::handleInput reacts to
ConfigKeys == {"ESCAPE", "LEFT", "RIGHT", "UP", "DOWN", "MINUS", "EQUAL"}

\* a ConfigSetting: its type, value and range
ConfigSetting(type, currentValue, minValue, maxValue) ==
    [type |-> type, currentValue |-> currentValue,
     minValue |-> minValue, maxValue |-> maxValue]

\* the settings ConfigMenu::initializeSettings builds, by category
InitialSettings ==
    << <<ConfigSetting("TOGGLE", 0, 0, 1), ConfigSetting("TOGGLE", 1, 0, 1),
         ConfigSetting("SLIDER", 60, 30, 144), ConfigSetting("SLIDER", 100, 50, 200)>>,
       <<ConfigSetting("SLIDER", 80, 0, 100), ConfigSetting("SLIDER", 70, 0, 100),
         ConfigSetting("SLIDER", 90, 0, 100)>>,
       <<ConfigSetting("CHOICE", 1, 0, 2), ConfigSetting("TOGGLE", 1, 0, 1),
         ConfigSetting("SLIDER", 50, 10, 100)>>,
       <<ConfigSetting("TOGGLE", 1, 0, 1), ConfigSetting("CHOICE", 0, 0, 1)>> >>

\* ConfigMenu::ConfigMenu: no settings yet, hidden; m_selectedCategory is
\* kept as the place of the category in the enum, from 1
ConfigMenu ==
    [m_visible          |-> FALSE,
     m_selectedCategory |-> 1,
     m_selectedSetting  |-> 0,
     m_settings         |-> <<<<>>, <<>>, <<>>, <<>>>>]

\* ConfigMenu::initialize, which builds the settings
ConfigMenu_initialize(m) == [m EXCEPT !.m_settings = InitialSettings]

\* ConfigMenu::setVisible
ConfigMenu_setVisible(m, visible) == [m EXCEPT !.m_visible = visible]

\* the settings of the selected category
selectedSettings(m) == m.m_settings[m.m_selectedCategory]

\* ConfigMenu::previousCategory
previousCategory(m) ==
    [m EXCEPT !.m_selectedCategory = IF @ - 1 < 1 THEN Len(ConfigCategories) ELSE @ - 1,
              !.m_selectedSetting  = 0]

\* nextCategory, keeping the selected setting
nextCategory_KeepsSetting(m) ==
    [m EXCEPT !.m_selectedCategory = IF @ + 1 > Len(ConfigCategories) THEN 1 ELSE @ + 1]

\* ConfigMenu::nextCategory
nextCategory(m) ==
    [m EXCEPT !.m_selectedCategory = IF @ + 1 > Len(ConfigCategories) THEN 1 ELSE @ + 1,
              !.m_selectedSetting  = 0]

\* ConfigMenu::moveSelectionUp
ConfigMenu_moveSelectionUp(m) ==
    IF selectedSettings(m) = <<>> THEN m
    ELSE [m EXCEPT !.m_selectedSetting =
                       IF @ - 1 < 0 THEN Len(selectedSettings(m)) - 1 ELSE @ - 1]

\* ConfigMenu::moveSelectionDown
ConfigMenu_moveSelectionDown(m) ==
    IF selectedSettings(m) = <<>> THEN m
    ELSE [m EXCEPT !.m_selectedSetting =
                       IF @ + 1 >= Len(selectedSettings(m)) THEN 0 ELSE @ + 1]

\* whether m_selectedSetting is an index into the selected category
selectsSetting(m) ==
    0 <= m.m_selectedSetting /\ m.m_selectedSetting < Len(selectedSettings(m))

\* the selected setting
selectedSetting(m) == selectedSettings(m)[m.m_selectedSetting + 1]

\* m with the value of the selected setting set
withValue(m, value) ==
    [m EXCEPT !.m_settings[m.m_selectedCategory][m.m_selectedSetting + 1].currentValue = value]

\* ConfigMenu::decreaseSetting
decreaseSetting(m) ==
    IF ~selectsSetting(m) THEN m
    ELSE LET setting == selectedSetting(m)
         IN  IF setting.type \in {"SLIDER", "CHOICE"}
             THEN withValue(m, IF setting.currentValue - 1 < setting.minValue
                               THEN setting.minValue ELSE setting.currentValue - 1)
             ELSE IF setting.type = "TOGGLE" THEN withValue(m, 0)
             ELSE m

\* ConfigMenu::increaseSetting
increaseSetting(m) ==
    IF ~selectsSetting(m) THEN m
    ELSE LET setting == selectedSetting(m)
         IN  IF setting.type \in {"SLIDER", "CHOICE"}
             THEN withValue(m, IF setting.currentValue + 1 > setting.maxValue
                               THEN setting.maxValue ELSE setting.currentValue + 1)
             ELSE IF setting.type = "TOGGLE" THEN withValue(m, 1)
             ELSE m

\* ConfigMenu::handleInput for a key press; `closes` tells whether the
\* m_onClose callback the host installed hides the menu
ConfigMenu_handleInput(m, key, closes) ==
    IF ~m.m_visible THEN m
    ELSE IF key = "ESCAPE" THEN (IF closes THEN ConfigMenu_setVisible(m, FALSE) ELSE m)
    ELSE IF key = "LEFT" THEN previousCategory(m)
    ELSE IF key = "RIGHT" THEN nextCategory(m)
    ELSE IF key = "UP" THEN ConfigMenu_moveSelectionUp(m)
    ELSE IF key = "DOWN" THEN ConfigMenu_moveSelectionDown(m)
    ELSE IF key = "MINUS" THEN decreaseSetting(m)
    ELSE IF key = "EQUAL" THEN increaseSetting(m)
    ELSE m

(***************************************************************************)
(* The host: calls made on the engine, in any order.                       *)
(***************************************************************************)
\* the frame times update is called with
DeltaTimes == {k * 100 : k \in 0..MaxDt}

\* the window sizes setScreenSize is called with
ScreenSizes == {<<1920, 1080>>, <<0, 0>>}

\* the characterCount getCharacterState is called with: the length of the
\* text, or 0
CharacterCounts == {0, MaxIndex + 1}

\* what a call of a void method returns
Void == [void |-> TRUE]

Call(op, charIndex, characterCount) ==
    [op |-> op, charIndex |-> charIndex, characterCount |-> characterCount]

\* a call of a void method `op` that leaves eng as `after`
Does(op, after) ==
    /\ eng' = after
    /\ call' = Call(op, 0, 0)
    /\ ret' = Void

Init ==
    \E config \in Configs :
        /\ eng = GlitchEffect(config)
        /\ twin = GlitchEffect(config)
        /\ call = Call("GlitchEffect", 0, 0)
        /\ ret = Void
        /\ app = Application
        /\ menu = ConfigMenu

Initialize ==
    \E rd \in 0..MaxSeed :
        Does("initialize", initialize(eng, rd)) /\ UNCHANGED <<twin, app, menu>>

\* update(deltaTime) on eng, while elapsedTime stays within `limit`
UpdateEng(deltaTime, limit) ==
    /\ eng.m_elapsedTime + deltaTime <= limit
    /\ Does("update", update(eng, deltaTime))

Update ==
    \E deltaTime \in DeltaTimes :
        UpdateEng(deltaTime, MaxElapsed * 100) /\ UNCHANGED <<twin, app, menu>>

Reset == Does("reset", reset(eng)) /\ UNCHANGED <<twin, app, menu>>

TriggerGlitch == Does("triggerGlitch", triggerGlitch(eng)) /\ UNCHANGED <<twin, app, menu>>

SetEnabled ==
    \E enabled \in BOOLEAN :
        Does("setEnabled", setEnabled(eng, enabled)) /\ UNCHANGED <<twin, app, menu>>

SetConfig ==
    \E config \in Configs :
        Does("setConfig", setConfig(eng, config)) /\ UNCHANGED <<twin, app, menu>>

SetScreenSize ==
    \E size \in ScreenSizes :
        Does("setScreenSize", setScreenSize(eng, size[1], size[2])) /\ UNCHANGED <<twin, app, menu>>

GetCharacterState ==
    \E charIndex \in 0..MaxIndex, characterCount \in CharacterCounts :
        \E got \in {getCharacterState(eng, charIndex, characterCount)} :
            /\ eng' = [eng EXCEPT !.m_randomEngine = got.randomEngine]
            /\ ret' = got.state
            /\ call' = Call("getCharacterState", charIndex, characterCount)
            /\ UNCHANGED <<twin, app, menu>>

Next ==
    \/ Initialize
    \/ Update
    \/ Reset
    \/ TriggerGlitch
    \/ SetEnabled
    \/ SetConfig
    \/ SetScreenSize
    \/ GetCharacterState

Spec == Init /\ [][Next]_vars

(***************************************************************************)
(* The host as a frame loop: initialize, then update with a positive frame *)
(* time every frame (Application::run), queries in between.                *)
(***************************************************************************)
Frame ==
    \E deltaTime \in DeltaTimes \ {0} :
        UpdateEng(deltaTime, MaxRunTime * 100) /\ UNCHANGED <<twin, app, menu>>

NextLive ==
    \/ Initialize
    \/ Frame
    \/ GetCharacterState

SpecLive == Init /\ [][NextLive]_vars /\ WF_vars(Frame)

(***************************************************************************)
(* The timing state machine alone, under a fixed configuration, run long   *)
(* enough for whole idle/glitch cycles of every configuration.             *)
(***************************************************************************)
Tick ==
    \E deltaTime \in DeltaTimes :
        UpdateEng(deltaTime, MaxRunTime * 100) /\ UNCHANGED <<twin, app, menu>>

NextTiming ==
    \/ Initialize
    \/ Tick
    \/ Reset
    \/ TriggerGlitch

SpecTiming == Init /\ [][NextTiming]_vars

(***************************************************************************)
(* Two instances constructed alike, seeded alike and updated alike; only   *)
(* eng serves queries.                                                     *)
(***************************************************************************)
PairInitialize ==
    \E rd \in 0..MaxSeed :
        Does("initialize", initialize(eng, rd)) /\ twin' = initialize(twin, rd)
        /\ UNCHANGED <<app, menu>>

PairUpdate ==
    \E deltaTime \in DeltaTimes :
        UpdateEng(deltaTime, MaxRunTime * 100) /\ twin' = update(twin, deltaTime)
        /\ UNCHANGED <<app, menu>>

NextPair ==
    \/ PairInitialize
    \/ PairUpdate
    \/ GetCharacterState

SpecPair == Init /\ [][NextPair]_vars

(***************************************************************************)
(* An engine constructed with a non-positive duration, in the frame loop   *)
(* with manual triggers.                                                   *)
(***************************************************************************)
InitDegenerate ==
    \E config \in DegenerateConfigs :
        /\ eng = GlitchEffect(config)
        /\ twin = GlitchEffect(config)
        /\ call = Call("GlitchEffect", 0, 0)
        /\ ret = Void
        /\ app = Application
        /\ menu = ConfigMenu

NextDegenerate ==
    \/ Initialize
    \/ Tick
    \/ TriggerGlitch
    \/ GetCharacterState

SpecDegenerate == InitDegenerate /\ [][NextDegenerate]_vars

(***************************************************************************)
(* An engine whose intensity passes slowly through the thresholds of the   *)
(* effects, in the frame loop with queries.                                *)
(***************************************************************************)
InitThreshold ==
    \E config \in ThresholdConfigs :
        /\ eng = GlitchEffect(config)
        /\ twin = GlitchEffect(config)
        /\ call = Call("GlitchEffect", 0, 0)
        /\ ret = Void
        /\ app = Application
        /\ menu = ConfigMenu

NextThreshold ==
    \/ Initialize
    \/ Frame
    \/ GetCharacterState

SpecThreshold == InitThreshold /\ [][NextThreshold]_vars

(***************************************************************************)
(* The frame loop with frames of 0.1 s and manual triggers, over           *)
(* configurations with glitches longer and not longer than a frame.        *)
(***************************************************************************)
InitCoarse ==
    \E config \in Configs \cup CoarseConfigs :
        /\ eng = GlitchEffect(config)
        /\ twin = GlitchEffect(config)
        /\ call = Call("GlitchEffect", 0, 0)
        /\ ret = Void
        /\ app = Application
        /\ menu = ConfigMenu

NextCoarse ==
    \/ Initialize
    \/ Frame
    \/ TriggerGlitch
    \/ GetCharacterState

SpecCoarse == InitCoarse /\ [][NextCoarse]_vars

(***************************************************************************)
(* setScreenSize alone, over window sizes from negative to huge.           *)
(***************************************************************************)
Widths == {0 - 1920, 0, 1, 576, 640, 1920, 2880, 3840, 5760, 100000}

Heights == {0 - 1080, 0, 1, 324, 480, 1080, 1620, 2160, 3240, 100000}

SetAnyScreenSize ==
    \E width \in Widths, height \in Heights :
        Does("setScreenSize", setScreenSize(eng, width, height)) /\ UNCHANGED <<twin, app, menu>>

NextScreen ==
    \/ Initialize
    \/ SetAnyScreenSize

SpecScreen == Init /\ [][NextScreen]_vars

(***************************************************************************)
(* generateNoise alone, over uint32 arguments from 0 to 2^32 - 1.          *)
(***************************************************************************)
\* the 16-bit halves the arguments are built from
Halves == {0, 1, 255, 32768, 65535}

\* the arguments of the call to come
InitNoise ==
    \E config \in Configs, index \in Halves \X Halves, seed \in Halves \X Halves :
        /\ eng = GlitchEffect(config)
        /\ twin = GlitchEffect(config)
        /\ call = [op |-> "arguments", index |-> index, seed |-> seed]
        /\ ret = Void
        /\ app = Application
        /\ menu = ConfigMenu

GenerateNoise ==
    /\ call.op = "arguments"
    /\ call' = [call EXCEPT !.op = "generateNoise"]
    /\ ret' = [bits  |-> generateNoiseBits32(call.index, call.seed),
               value |-> generateNoise32(call.index, call.seed)]
    /\ UNCHANGED <<eng, twin, app, menu>>

NextNoise == GenerateNoise

SpecNoise == InitNoise /\ [][NextNoise]_vars

(***************************************************************************)
(* StartMenu as the host of the engine: update once a frame, then          *)
(* renderLogo draws the title in two passes.  Draw positions are kept      *)
(* relative to the pen position of each glyph.                             *)
(***************************************************************************)
\* the number of glyphs of the title: m_logoLines[0], "0xD3ADC0DE", is
\* modelled by a title of three glyphs, so that the draws from the random
\* stream made in one pass are not a multiple of the period of mt19937 above
TitleLength == 3

\* the calls getCharacterState(i, n), i = first..n-1, made in order on g:
\* the states returned and the random engine left behind
RECURSIVE queryGlyphs(_, _, _)
queryGlyphs(g, first, n) ==
    IF first >= n THEN [states |-> <<>>, randomEngine |-> g.m_randomEngine]
    ELSE Only({ Only({ [states       |-> <<got.state>> \o rest.states,
                        randomEngine |-> rest.randomEngine]
                       : rest \in {queryGlyphs(
                             [g EXCEPT !.m_randomEngine = got.randomEngine],
                             first + 1, n)} })
                : got \in {getCharacterState(g, first, n)} })

\* the main pass of renderLogo: glitchCallback moves glyph i by the offset
\* of its state; an invisible glyph is not drawn
mainDraws(states) ==
    [i \in 1..Len(states) |->
        [glyph |-> i - 1, at |-> states[i].offset, drawn |-> states[i].visible]]

\* the second pass of renderLogo: one draw for every glyph whose state, as
\* queried in this pass, has duplicate set
RECURSIVE duplicateDraws(_, _)
duplicateDraws(states, i) ==
    IF i > Len(states) THEN <<>>
    ELSE (IF states[i].duplicate
          THEN <<[glyph |-> i - 1,
                  at    |-> Vec2Add(states[i].offset, states[i].duplicateOffset)]>>
          ELSE <<>>) \o duplicateDraws(states, i + 1)

\* StartMenu::renderLogo, main title: the draws issued and the random
\* engine left behind; `reported` are the states the main pass received
renderLogo(g) ==
    IF ~isActive(g)
    THEN [reported |-> <<>>, main |-> <<>>, duplicates |-> <<>>,
          randomEngine |-> g.m_randomEngine]
    ELSE Only({ Only({ [reported     |-> pass1.states,
                        main         |-> mainDraws(pass1.states),
                        duplicates   |-> duplicateDraws(pass2.states, 1),
                        randomEngine |-> pass2.randomEngine]
                       : pass2 \in {queryGlyphs(
                             [g EXCEPT !.m_randomEngine = pass1.randomEngine],
                             0, TitleLength)} })
                : pass1 \in {queryGlyphs(g, 0, TitleLength)} })

RenderLogo ==
    \E drawn \in {renderLogo(eng)} :
        /\ eng' = [eng EXCEPT !.m_randomEngine = drawn.randomEngine]
        /\ ret' = [reported |-> drawn.reported, main |-> drawn.main,
                   duplicates |-> drawn.duplicates]
        /\ call' = Call("renderLogo", 0, TitleLength)
        /\ UNCHANGED <<twin, app, menu>>

NextHost ==
    \/ Initialize
    \/ Frame
    \/ SetScreenSize
    \/ RenderLogo

SpecHost == Init /\ [][NextHost]_vars

(***************************************************************************)
(* Application as a process: initialize, run() and its frames, with        *)
(* requestExit() called from outside as well, and the window closed by the *)
(* user.                                                                   *)
(***************************************************************************)
\* a step of the application `op` that leaves app as `after`
AppDoes(op, after) ==
    /\ app' = after
    /\ call' = Call(op, 0, 0)
    /\ UNCHANGED <<eng, twin, ret, menu>>

AppInitialize ==
    /\ ~app.m_initialized
    /\ \E hasSaves \in BOOLEAN :
          AppDoes("Application::initialize", Application_initialize(app, hasSaves))

\* run() is entered: it returns at once when not initialised
RunEnter ==
    /\ app.at = "outside"
    /\ AppDoes("run", IF app.m_initialized
                      THEN [app EXCEPT !.m_running = TRUE, !.at = "loop"]
                      ELSE app)

\* one iteration of the loop of run()
RunFrame ==
    /\ app.at = "loop"
    /\ loops(app)
    /\ \E key \in Keys :
          /\ app' = processInput(handleKeyInput(app, key), key)
          /\ call' = [op |-> "frame", key |-> key]
          /\ UNCHANGED <<eng, twin, ret, menu>>

\* the loop of run() ends
RunLeave ==
    /\ app.at = "loop"
    /\ ~loops(app)
    /\ AppDoes("runEnd", [app EXCEPT !.m_running = FALSE, !.at = "outside"])

\* requestExit() on an initialised application
RequestExit ==
    /\ app.m_initialized
    /\ AppDoes("requestExit", requestExit(app))

\* the user closes the window
WindowClose ==
    /\ app.m_initialized
    /\ ~app.shouldClose
    /\ AppDoes("windowClose", [app EXCEPT !.shouldClose = TRUE])

NextApp ==
    \/ AppInitialize
    \/ RunEnter
    \/ RunFrame
    \/ RunLeave
    \/ RequestExit
    \/ WindowClose

SpecApp == Init /\ [][NextApp]_vars

\* the same with the loop of run() scheduled fairly
SpecAppLive == SpecApp /\ WF_vars(RunFrame) /\ WF_vars(RunLeave)

(***************************************************************************)
(* StartMenu alone: key presses handled by the menu, and calls of          *)
(* setContinueEnabled.                                                     *)
(***************************************************************************)
MenuKey ==
    \E key \in Keys \ {"NONE"} :
        /\ app' = StartMenu_handleInput(app, key)
        /\ call' = [op |-> "handleInput", key |-> key]
        /\ UNCHANGED <<eng, twin, ret, menu>>

SetContinueEnabled ==
    \E enabled \in BOOLEAN :
        AppDoes("setContinueEnabled", setContinueEnabled(app, enabled))

NextMenu ==
    \/ MenuKey
    \/ SetContinueEnabled

SpecMenu == Init /\ [][NextMenu]_vars

(***************************************************************************)
(* ConfigMenu as driven by a host: initialize, setVisible and key presses. *)
(* The user changes one setting at a time: a setting is changed only while *)
(* all the others have their initial values.                               *)
(***************************************************************************)
\* every setting but the selected one has its initial value
OthersUntouched(m) ==
    \A category \in 1..Len(m.m_settings) :
        \A index \in 1..Len(m.m_settings[category]) :
            (category # m.m_selectedCategory \/ index # m.m_selectedSetting + 1) =>
                m.m_settings[category][index] = InitialSettings[category][index]

\* a call `op` on the menu that leaves it as `after`
MenuDoes(op, key, after) ==
    /\ menu' = after
    /\ call' = [op |-> op, key |-> key]
    /\ UNCHANGED <<eng, twin, ret, app>>

ConfigInitialize == MenuDoes("ConfigMenu::initialize", "NONE", ConfigMenu_initialize(menu))

ConfigSetVisible ==
    \E visible \in BOOLEAN :
        MenuDoes("ConfigMenu::setVisible", "NONE", ConfigMenu_setVisible(menu, visible))

ConfigKey ==
    \E key \in ConfigKeys, closes \in BOOLEAN :
        /\ key \in {"MINUS", "EQUAL"} => OthersUntouched(menu)
        /\ MenuDoes("ConfigMenu::handleInput", key, ConfigMenu_handleInput(menu, key, closes))

NextConfig ==
    \/ ConfigInitialize
    \/ ConfigSetVisible
    \/ ConfigKey

SpecConfig == Init /\ [][NextConfig]_vars

(***************************************************************************)
(* Properties.                                                             *)
(***************************************************************************)
\* an initialised, enabled engine
Running(g) == g.m_initialized /\ g.m_config.enabled

\* a configuration with intensity in [0, 1] and a positive duration
ValidConfig(config) ==
    config.duration > 0 /\ 0 <= config.intensity /\ config.intensity <= 1000

\* offset (0,0), colorMod (1,1,1), visible, no duplicate
IsNeutral(state) ==
    /\ state.offset = <<0, 0>>
    /\ state.colorMod = <<1000, 1000, 1000>>
    /\ state.visible
    /\ ~state.duplicate

\* C1: on an initialised, enabled engine with a valid configuration, after
\* every update, reset and triggerGlitch the current intensity lies in
\* [0, config.intensity]; and the intensity is 0 whenever no glitch is active.
C1_IntensityBounds ==
    /\ (/\ Running(eng)
        /\ ValidConfig(eng.m_config)
        /\ call.op \in {"update", "reset", "triggerGlitch"})
       => (0 <= eng.m_currentIntensity /\ eng.m_currentIntensity <= eng.m_config.intensity)
    /\ ~isActive(eng) => eng.m_currentIntensity = 0

\* an update has left a glitch active with a positive intensity
C1_Witness ==
    /\ call.op = "update"
    /\ Running(eng)
    /\ isActive(eng)
    /\ eng.m_currentIntensity > 0

\* C2: in the frame loop, an initialised, enabled idle engine eventually
\* becomes active, and an active one eventually becomes idle again (where
\* the run is long enough for the remaining idle time or glitch time).
C2_Liveness ==
    /\ (/\ Running(eng)
        /\ ~isActive(eng)
        /\ eng.m_elapsedTime + eng.m_idleTimer <= MaxRunTime * 100)
       ~> isActive(eng)
    /\ (/\ Running(eng)
        /\ isActive(eng)
        /\ eng.m_elapsedTime + (eng.m_config.duration - eng.m_glitchTimer) + 100
              <= MaxRunTime * 100)
       ~> ~isActive(eng)

\* the frame loop has taken the engine through a whole idle time and a whole
\* glitch, back to idle
C2_Witness ==
    /\ call.op = "update"
    /\ Running(eng)
    /\ ~isActive(eng)
    /\ eng.m_idleTimer = eng.m_config.idleTime
    /\ eng.m_elapsedTime >= eng.m_config.idleTime + eng.m_config.duration

\* C3: an update with dt > 0 of an idle running engine strictly decreases the
\* idle timer; the engine is active afterwards exactly if the idle timer is
\* then <= 0, and it then has glitchTimer = 0 and a noise seed rolled from the
\* random stream.
C3_IdleCountdown ==
    [][(/\ call'.op = "update"
        /\ Running(eng)
        /\ ~isActive(eng)
        /\ eng'.m_elapsedTime > eng.m_elapsedTime)
       => (/\ eng'.m_idleTimer < eng.m_idleTimer
           /\ eng'.m_idleTimer = eng.m_idleTimer - (eng'.m_elapsedTime - eng.m_elapsedTime)
           /\ isActive(eng') <=> eng'.m_idleTimer <= 0
           /\ isActive(eng') =>
                 /\ eng'.m_glitchTimer = 0
                 /\ eng'.m_noiseSeed = RollNoiseSeed(eng.m_randomEngine)
                 /\ eng'.m_randomEngine = mt19937(eng.m_randomEngine))]_vars

\* an update has let the idle timer expire and started a glitch
C3_Witness ==
    /\ call.op = "update"
    /\ Running(eng)
    /\ isActive(eng)
    /\ eng.m_idleTimer <= 0
    /\ eng.m_glitchTimer = 0
    /\ eng.m_elapsedTime > 0

\* C4: an update of an active running engine leaves it active exactly if the
\* glitch timer, advanced by dt, is still below config.duration; when it ends
\* the glitch, the intensity is 0, the idle timer is config.idleTime and the
\* noise seed is rolled from the random stream.
C4_GlitchEnd ==
    [][(/\ call'.op = "update"
        /\ Running(eng)
        /\ isActive(eng))
       => (/\ isActive(eng') <=>
                 eng.m_glitchTimer + (eng'.m_elapsedTime - eng.m_elapsedTime)
                    < eng.m_config.duration
           /\ ~isActive(eng') =>
                 /\ eng'.m_currentIntensity = 0
                 /\ eng'.m_idleTimer = eng.m_config.idleTime
                 /\ eng'.m_noiseSeed = RollNoiseSeed(eng.m_randomEngine)
                 /\ eng'.m_randomEngine = mt19937(eng.m_randomEngine))]_vars

\* an update has ended a glitch and re-armed the idle timer
C4_Witness ==
    /\ call.op = "update"
    /\ Running(eng)
    /\ ~isActive(eng)
    /\ eng.m_idleTimer = eng.m_config.idleTime
    /\ eng.m_glitchTimer = 0
    /\ eng.m_currentIntensity = 0
    /\ eng.m_elapsedTime > 0

\* C5, as claimed: a glitch is active if and only if 0 <= glitchTimer < duration.
C5_ActiveIffTimerInRange ==
    isActive(eng) <=>
        (0 <= eng.m_glitchTimer /\ eng.m_glitchTimer < eng.m_config.duration)

\* C5, amended: under a fixed configuration with a positive duration, while a
\* glitch is active 0 <= glitchTimer < duration (an idle engine has
\* glitchTimer = 0, which is in that range as well).
C5_ActiveTimerInRange ==
    (isActive(eng) /\ eng.m_config.duration > 0) =>
        (0 <= eng.m_glitchTimer /\ eng.m_glitchTimer < eng.m_config.duration)

\* an update has advanced the timer of an active glitch
C5_Witness ==
    /\ call.op = "update"
    /\ isActive(eng)
    /\ eng.m_glitchTimer > 0

\* C6: a getCharacterState call on an engine that is disabled, not initialised
\* or idle returns offset (0,0), colorMod (1,1,1), visible, no duplicate.
C6_NeutralWhenInert ==
    (/\ call.op = "getCharacterState"
     /\ (~eng.m_config.enabled \/ ~eng.m_initialized \/ ~isActive(eng)))
    => IsNeutral(ret)

\* a query served by an engine disabled in the middle of a strong glitch
C6_Witness ==
    /\ call.op = "getCharacterState"
    /\ eng.m_initialized
    /\ ~eng.m_config.enabled
    /\ isActive(eng)
    /\ eng.m_currentIntensity > 300

\* C7: an update of a disabled engine changes nothing of the engine.
C7_DisabledUpdateNoOp ==
    [][(call'.op = "update" /\ ~eng.m_config.enabled) => eng' = eng]_vars

\* an update was called on an initialised engine disabled during a glitch
C7_Witness ==
    /\ call.op = "update"
    /\ eng.m_initialized
    /\ ~eng.m_config.enabled
    /\ isActive(eng)
    /\ eng.m_glitchTimer > 0

\* C8, as claimed: a getCharacterState call that follows a call with the same
\* arguments, nothing else called in between, returns the same state.
C8_SameFrameSameState ==
    [][(call.op = "getCharacterState" /\ call' = call) => ret' = ret]_vars

\* C9, as claimed: two instances constructed, seeded and updated alike return
\* the same visible flag for every (charIndex, characterCount), however many
\* queries either has served.
C9_SameVisible ==
    \A charIndex \in 0..MaxIndex, characterCount \in CharacterCounts :
        getCharacterState(eng, charIndex, characterCount).state.visible
            = getCharacterState(twin, charIndex, characterCount).state.visible

\* C10, as claimed: getCharacterState(i, 0) returns the neutral state.
C10_ZeroCountNeutral ==
    (call.op = "getCharacterState" /\ call.characterCount = 0) => IsNeutral(ret)

\* C11, as claimed: with a non-positive duration no update evaluates the
\* envelope with a zero divisor, the intensity is 0 after every call, and no
\* query returns a displaced, recoloured, hidden or duplicated character.
C11_NoZeroDivisor ==
    [][(eng.m_config.duration <= 0) =>
          /\ (call'.op = "update" /\ evaluatesEnvelope(eng))
                => eng.m_config.duration # 0
          /\ eng'.m_currentIntensity = 0
          /\ call'.op = "getCharacterState" => IsNeutral(ret')]_vars

\* the part of C11 the code does meet: no visible effect
C11_NoVisibleEffect ==
    /\ eng.m_currentIntensity = 0
    /\ call.op = "getCharacterState" => IsNeutral(ret)

\* min(max(x, lo), hi), written out
Clamp(x, lo, hi) == IF x < lo THEN lo ELSE IF x > hi THEN hi ELSE x

\* C12: after setScreenSize(width, height), for any width and height,
\* resolutionScale = clamp(min(width / 1920, height / 1080), 0.3, 3.0), which
\* lies within [0.3, 3.0].
C12_ScaleClamped ==
    call.op = "setScreenSize" =>
        /\ eng.m_resolutionScale =
              Clamp(IF F(eng.m_screenWidth, 1920) < F(eng.m_screenHeight, 1080)
                    THEN F(eng.m_screenWidth, 1920)
                    ELSE F(eng.m_screenHeight, 1080), 300, 3000)
        /\ 300 <= eng.m_resolutionScale
        /\ eng.m_resolutionScale <= 3000

\* setScreenSize(100000, 100000) has clamped the scale down to 3.0
C12_Witness ==
    /\ call.op = "setScreenSize"
    /\ eng.m_screenWidth = 100000
    /\ eng.m_screenHeight = 100000
    /\ eng.m_resolutionScale = 3000

\* the (index, seed) pairs the noise function is probed with
NoiseProbes == {<<0, 0>>, <<1, 5000>>, <<7, 8500>>}

C14_NoiseRange ==
    call.op = "generateNoise" =>
        /\ ret.bits[1] \in 0..4095
        /\ ret.bits[2] \in 0..4095
        /\ ret.bits[1] * 4096 + ret.bits[2] < 16777216
        /\ 0 <= ret.value
        /\ ret.value < 1000

\* generateNoise(0x0001_0001, 0xFFFF_0000) has returned 16767949 / 2^24, the
\* value 32-bit wrap-around arithmetic gives
C14_Witness ==
    /\ call.op = "generateNoise"
    /\ call.index = <<1, 1>>
    /\ call.seed = <<65535, 0>>
    /\ ret.bits = <<4093, 3021>>
    /\ ret.value = 999

\* C15, as claimed: after reset(), from any state, the engine is idle with
\* glitchTimer = 0 and idleTimer = 0, intensity 0, elapsedTime 0 and a
\* re-rolled noise seed.
C15_ResetZeroesTimers ==
    [][call'.op = "reset" =>
          /\ ~isActive(eng')
          /\ eng'.m_glitchTimer = 0
          /\ eng'.m_idleTimer = 0
          /\ eng'.m_currentIntensity = 0
          /\ eng'.m_elapsedTime = 0
          /\ eng'.m_noiseSeed = RollNoiseSeed(eng.m_randomEngine)]_vars

\* C15, amended: after reset(), from any state, the engine is idle with
\* glitchTimer = 0 and the idle timer re-armed to config.idleTime, intensity
\* 0, elapsedTime 0 and a noise seed rolled from the random stream.
C15_ResetRearmsIdle ==
    [][call'.op = "reset" =>
          /\ ~isActive(eng')
          /\ eng'.m_glitchTimer = 0
          /\ eng'.m_idleTimer = eng.m_config.idleTime
          /\ eng'.m_currentIntensity = 0
          /\ eng'.m_elapsedTime = 0
          /\ eng'.m_noiseSeed = RollNoiseSeed(eng.m_randomEngine)
          /\ eng'.m_randomEngine = mt19937(eng.m_randomEngine)]_vars

\* reset() has been called on an initialised engine and left it idle with
\* the idle timer armed
C15_Witness ==
    /\ call.op = "reset"
    /\ eng.m_initialized
    /\ ~isActive(eng)
    /\ eng.m_idleTimer = eng.m_config.idleTime
    /\ eng.m_idleTimer > 0
    /\ eng.m_elapsedTime = 0

\* C16: triggerGlitch() makes the engine active at once from any state,
\* whatever the idle timer: afterwards isActive() is true, glitchTimer = 0
\* and the noise seed is rolled from the random stream.
C16_TriggerForcesActive ==
    [][call'.op = "triggerGlitch" =>
          /\ isActive(eng')
          /\ eng'.m_glitchTimer = 0
          /\ eng'.m_currentIntensity = 0
          /\ eng'.m_idleTimer = eng.m_idleTimer
          /\ eng'.m_noiseSeed = RollNoiseSeed(eng.m_randomEngine)
          /\ eng'.m_randomEngine = mt19937(eng.m_randomEngine)]_vars

\* triggerGlitch() has activated an engine whose idle timer had not expired
C16_Witness ==
    /\ call.op = "triggerGlitch"
    /\ eng.m_initialized
    /\ isActive(eng)
    /\ eng.m_glitchTimer = 0
    /\ eng.m_idleTimer > 0
    /\ eng.m_idleTimer < eng.m_config.idleTime

\* the operations C17 names as unable to disturb a running glitch
Bystanders ==
    {"triggerGlitch", "setEnabled", "setConfig", "setScreenSize",
     "getCharacterState"}

\* C17, as claimed: while a glitch is active, triggerGlitch, setEnabled,
\* setConfig, setScreenSize and getCharacterState neither interrupt it (it
\* stays active), nor restart it (the glitch timer keeps its value), nor
\* suspend it (update keeps advancing it).
C17_NoInterruption ==
    [][(evaluatesEnvelope(eng) /\ call'.op \in Bystanders) =>
          /\ isActive(eng')
          /\ eng'.m_glitchTimer = eng.m_glitchTimer
          /\ evaluatesEnvelope(eng')]_vars

\* C17, amended: an active glitch ends only in an update(dt) that brings the
\* glitch timer to config.duration, or in reset(); setScreenSize and
\* getCharacterState leave its timing alone; setEnabled and setConfig keep
\* it active with its timer, though update advances it only while enabled;
\* triggerGlitch keeps it active and restarts its timer at 0.
C17_EndsOnlyByUpdateOrReset ==
    [][isActive(eng) =>
          /\ ~isActive(eng') =>
                \/ call'.op = "reset"
                \/ /\ call'.op = "update"
                   /\ evaluatesEnvelope(eng)
                   /\ \E deltaTime \in DeltaTimes :
                         /\ eng.m_glitchTimer + deltaTime >= eng.m_config.duration
                         /\ eng' = update(eng, deltaTime)
          /\ call'.op \in {"setScreenSize", "getCharacterState"} =>
                /\ eng'.m_glitchTimer = eng.m_glitchTimer
                /\ eng'.m_currentIntensity = eng.m_currentIntensity
                /\ eng'.m_config = eng.m_config
          /\ call'.op \in {"setEnabled", "setConfig"} =>
                /\ isActive(eng')
                /\ eng'.m_glitchTimer = eng.m_glitchTimer
          /\ call'.op = "triggerGlitch" =>
                /\ isActive(eng')
                /\ eng'.m_glitchTimer = 0]_vars

\* a glitch that had run for a while has been disabled half-way by
\* setEnabled(false) and is still active
C17_Witness ==
    /\ call.op = "setEnabled"
    /\ eng.m_initialized
    /\ isActive(eng)
    /\ ~eng.m_config.enabled
    /\ eng.m_glitchTimer > 0
    /\ eng.m_glitchTimer < eng.m_config.duration

\* C18: in renderLogo, every glyph whose state reports duplicate gets
\* exactly one additional draw, at the offset applied to the main glyph in
\* that frame plus duplicateOffset.
C18_DuplicateAtMainOffset ==
    call.op = "renderLogo" =>
        \A i \in 1..Len(ret.reported) :
            ret.reported[i].duplicate =>
                /\ Cardinality({k \in 1..Len(ret.duplicates) :
                                   ret.duplicates[k].glyph = i - 1}) = 1
                /\ \A k \in 1..Len(ret.duplicates) :
                      ret.duplicates[k].glyph = i - 1 =>
                          ret.duplicates[k].at =
                              Vec2Add(ret.main[i].at, ret.reported[i].duplicateOffset)

\* C19: requestExit() sets the exit-requested flag: immediately afterwards
\* isExitRequested() is true.
C19_RequestExitSetsFlag ==
    [][call'.op = "requestExit" => isExitRequested(app')]_vars

\* C19, the loop: once requestExit() has been called while run() is in its
\* loop, run() leaves the loop.
C19_RequestExitEndsLoop ==
    (call.op = "requestExit" /\ app.at = "loop") ~> (app.at = "outside")

\* the offset C20 describes: the sum of the slice, block and character
\* displacement contributions, each computed on its own from a neutral state
summedOffset(g, charIndex, characterCount) ==
    LET slice  == applySlicing(g, NeutralState, charIndex, characterCount).offset
        block  == applyBlock(g, NeutralState, charIndex, characterCount).offset
        random == generateRandomOffset(g).offset
        moved  == IF drawsRandomOffset(g)
                  THEN applyDisplacement(g, NeutralState, random,
                                         charIndex, characterCount).offset
                  ELSE <<0, 0>>
    IN  Vec2Add(Vec2Add(slice, block), moved)

\* C20: the offset getCharacterState returns while a glitch is shown is the
\* sum of its gated contributions: slice displacement + block displacement
\* + (0.7 * wave + 0.3 * random) * currentIntensity * noise; none that is
\* enabled and past its threshold is missing.
C20_OffsetIsSum ==
    [][(call'.op = "getCharacterState" /\ ~producesNoEffect(eng)) =>
          ret'.offset = summedOffset(eng, call'.charIndex, call'.characterCount)]_vars

\* the progress of the running glitch of g: glitchTimer / duration
progressOf(g) == FDiv(g.m_glitchTimer, g.m_config.duration)

\* an update has just advanced a running glitch and left it running
Ramped == call'.op = "update" /\ evaluatesEnvelope(eng) /\ isActive(eng')

\* C21: after an update that leaves the engine active with progress =
\* glitchTimer / duration, currentIntensity is (progress / 0.5) * intensity
\* when progress < 0.2 and intensity * (1 - (progress - 0.2) / 0.8)
\* otherwise, which lies between 0 and config.intensity.
C21_Envelope ==
    [][Ramped =>
          LET progress  == progressOf(eng')
              intensity == eng'.m_config.intensity
          IN  /\ progress < 200 =>
                    eng'.m_currentIntensity = (((progress * 1000) \div 500) * intensity) \div 1000
              /\ progress >= 200 =>
                    /\ eng'.m_currentIntensity =
                          (intensity * (1000 - ((progress - 200) * 1000) \div 800)) \div 1000
                    /\ 0 <= eng'.m_currentIntensity
                    /\ eng'.m_currentIntensity <= intensity]_vars

\* an update has left a glitch in its fade, past the 20% mark, with part of
\* the intensity left
C21_Witness ==
    /\ call.op = "update"
    /\ Running(eng)
    /\ isActive(eng)
    /\ progressOf(eng) >= 200
    /\ 0 < eng.m_currentIntensity
    /\ eng.m_currentIntensity < eng.m_config.intensity

\* C22, as claimed: in the ramp (progress < 0.2) currentIntensity never
\* exceeds 0.2 * config.intensity.
C22_RampBelowFifth ==
    [][(Ramped /\ progressOf(eng') < 200) =>
          eng'.m_currentIntensity <= FMul(200, eng'.m_config.intensity)]_vars

\* C22, amended: in the ramp (progress < 0.2) currentIntensity is
\* (progress / 0.5) * intensity and stays below 0.4 * config.intensity, the
\* level the ramp approaches at the 20% mark.
C22_RampBelowTwoFifths ==
    [][(Ramped /\ progressOf(eng') < 200) =>
          /\ 0 <= eng'.m_currentIntensity
          /\ eng'.m_currentIntensity < FMul(400, eng'.m_config.intensity)]_vars

\* an update has left a glitch in its ramp with more than 0.2 * intensity
C22_Witness ==
    /\ call.op = "update"
    /\ Running(eng)
    /\ isActive(eng)
    /\ progressOf(eng) < 200
    /\ eng.m_currentIntensity > FMul(200, eng.m_config.intensity)

\* getCharacterState has just answered while the engine shows a glitch
Answered == call'.op = "getCharacterState" /\ ~producesNoEffect(eng)

C24_DuplicateOffsetScaleFree ==
    [][(Answered /\ ret'.duplicate) =>
          \A size \in ScreenSizes :
              getCharacterState(setScreenSize(eng, size[1], size[2]),
                                call'.charIndex, call'.characterCount)
                  .state.duplicateOffset = ret'.duplicateOffset]_vars

\* every query on g returns zero offset, colorMod (1,1,1), a visible and
\* not duplicated character
ShowsNothing(g) ==
    \A charIndex \in 0..MaxIndex, characterCount \in CharacterCounts :
        \E state \in {getCharacterState(g, charIndex, characterCount).state} :
            /\ state.offset = <<0, 0>>
            /\ state.colorMod = <<1000, 1000, 1000>>
            /\ state.visible
            /\ ~state.duplicate

\* every frame of the host is at least as long as the glitch of g
CoarseFrames(g) == \A deltaTime \in DeltaTimes \ {0} : deltaTime >= g.m_config.duration

\* C25: when the engine has just become active, by expiry of the idle timer
\* in update or by triggerGlitch, currentIntensity is 0 and every query
\* returns zero offset, colorMod (1,1,1), visible and no duplicate; when
\* every frame is at least as long as the glitch, currentIntensity is 0
\* after every call and every query answered returns the same.
C25_NoEffectOnEntry ==
    [][/\ (~isActive(eng) /\ isActive(eng')) =>
             /\ call'.op \in {"update", "triggerGlitch"}
             /\ eng'.m_currentIntensity = 0
             /\ ShowsNothing(eng')
       /\ CoarseFrames(eng) =>
             /\ eng'.m_currentIntensity = 0
             /\ call'.op = "getCharacterState" =>
                   /\ ret'.offset = <<0, 0>>
                   /\ ret'.colorMod = <<1000, 1000, 1000>>
                   /\ ret'.visible
                   /\ ~ret'.duplicate]_vars

\* an engine with glitches no longer than a frame has answered a query in
\* its second glitch, entered by an update
C25_Witness ==
    /\ call.op = "getCharacterState"
    /\ CoarseFrames(eng)
    /\ Running(eng)
    /\ isActive(eng)
    /\ eng.m_elapsedTime > eng.m_config.idleTime + 100
    /\ eng.m_currentIntensity = 0
    /\ ret.visible

\* C26: ESC pressed while the confirmation box is visible in the main menu
\* dismisses it: after the input handling of that frame the box is not
\* visible.
C26_EscapeDismissesBox ==
    [][(/\ call'.op = "frame"
        /\ call'.key = "ESCAPE"
        /\ app.m_gameState = "MainMenu"
        /\ app.textBox.m_visible) => ~app'.textBox.m_visible]_vars

\* C27: in no reachable state of the running loop is every key press
\* ignored: in MainMenu, Playing and Configuration some key changes the
\* application, so that key presses can lead back to MainMenu.
C27_SomeKeyActs ==
    (app.at = "loop" /\ loops(app)) =>
        \E key \in Keys : processInput(handleKeyInput(app, key), key) # app

\* a frame of the running loop in which `key` is pressed
Pressed(key) == call'.op = "frame" /\ call'.key = key

\* a frame in which ENTER or SPACE is pressed
Executed == Pressed("ENTER") \/ Pressed("SPACE")

\* the confirmation box is the one that receives the keys
BoxHasKeys(a) == a.m_gameState = "MainMenu" /\ a.textBox.m_visible

\* the start menu is the one that receives the keys
MenuHasKeys(a) == a.m_gameState = "MainMenu" /\ ~a.textBox.m_visible

Around(option, step, steps) ==
    ((option - 1 + step * steps + 2 * Len(StartMenuOptions)) % Len(StartMenuOptions)) + 1

\* the number of places from option `from` to option `to` in the direction
\* `step`, a full turn when they are the same
Places(from, to, step) ==
    CHOOSE steps \in 1..Len(StartMenuOptions) : Around(from, step, steps) = to

\* the selection has moved from `from` to `to` in the direction `step` past
\* disabled options only, onto an enabled one
MovedTo(a, from, to, step) ==
    /\ isOptionEnabled(a, to)
    /\ \A steps \in 1..(Places(from, to, step) - 1) :
          ~isOptionEnabled(a, Around(from, step, steps))

\* C29: under any sequence of key presses and setContinueEnabled calls the
\* selection stays within NEW_GAME..EXIT; UP and DOWN move it cyclically
\* to the next enabled option, skipping CONTINUE while it is disabled; ESC
\* selects EXIT; ENTER or SPACE on a disabled option invokes no callback.
C29_MenuNavigation ==
    [][/\ app'.mainMenu.m_selectedOption \in 1..Len(StartMenuOptions)
       /\ call'.op = "handleInput" =>
             LET from == app.mainMenu.m_selectedOption
                 to   == app'.mainMenu.m_selectedOption
             IN  /\ call'.key = "UP" => MovedTo(app, from, to, 0 - 1)
                 /\ call'.key = "DOWN" => MovedTo(app, from, to, 1)
                 /\ call'.key = "ESCAPE" => StartMenuOptions[to] = "EXIT"
                 /\ (call'.key \in {"ENTER", "SPACE"} /\ ~isOptionEnabled(app, from)) =>
                       app' = app
                 /\ call'.key \in {"UP", "DOWN", "ESCAPE"} =>
                       app' = [app EXCEPT !.mainMenu.m_selectedOption = to]]_vars

\* DOWN has taken the selection from NEW_GAME to SETTINGS, past the
\* disabled CONTINUE
C29_Witness ==
    /\ call.op = "handleInput"
    /\ call.key = "DOWN"
    /\ ~app.mainMenu.m_continueEnabled
    /\ StartMenuOptions[app.mainMenu.m_selectedOption] = "SETTINGS"

\* C30: once initialised, under any key presses every currentValue stays in
\* [minValue, maxValue] (sliders and choices saturate, toggles are 0 or 1),
\* m_selectedSetting is an index into the selected category, the category
\* wraps cyclically within DISPLAY..CONTROLS and a change of category
\* resets m_selectedSetting to 0; a hidden menu ignores key presses.
C30_ConfigMenuInvariant ==
    [][LET Built(m) == m.m_settings # ConfigMenu.m_settings
           InRange(m) ==
               \A category \in 1..Len(m.m_settings) :
                   \A index \in 1..Len(m.m_settings[category]) :
                       LET setting == m.m_settings[category][index]
                       IN  /\ setting.minValue <= setting.currentValue
                           /\ setting.currentValue <= setting.maxValue
                           /\ setting.type = "TOGGLE" => setting.currentValue \in {0, 1}
           Saturated(m, key) ==
               \/ key = "EQUAL" /\ selectedSetting(m).currentValue = selectedSetting(m).maxValue
               \/ key = "MINUS" /\ selectedSetting(m).currentValue = selectedSetting(m).minValue
       IN  Built(menu') =>
               /\ InRange(menu')
               /\ selectsSetting(menu')
               /\ menu'.m_selectedCategory \in 1..Len(ConfigCategories)
               /\ call'.op = "ConfigMenu::handleInput" =>
                     /\ ~menu.m_visible => menu' = menu
                     /\ menu'.m_selectedCategory # menu.m_selectedCategory =>
                           menu'.m_selectedSetting = 0
                     /\ (menu.m_visible /\ call'.key = "RIGHT") =>
                           menu'.m_selectedCategory = (menu.m_selectedCategory % 4) + 1
                     /\ (menu.m_visible /\ call'.key = "LEFT") =>
                           menu'.m_selectedCategory = ((menu.m_selectedCategory + 2) % 4) + 1
                     /\ (menu.m_visible /\ Saturated(menu, call'.key)) => menu' = menu]_vars

\* the SFX Volume slider has been raised to its maximum and '+' pressed
\* once more
C30_Witness ==
    /\ call.op = "ConfigMenu::handleInput"
    /\ call.key = "EQUAL"
    /\ menu.m_visible
    /\ ConfigCategories[menu.m_selectedCategory] = "AUDIO"
    /\ menu.m_selectedSetting = 2
    /\ selectedSetting(menu).type = "SLIDER"
    /\ selectedSetting(menu).currentValue = 100
    /\ selectedSetting(menu).currentValue = selectedSetting(menu).maxValue

====
